---------------------------- MODULE Spec2Model ----------------------------
(***************************************************************************)
(* Model of Ekf::fuseMagCal (src/EKF/mag_calibration.cpp): the auxiliary   *)
(* 4-state sequential Kalman filter that estimates the magnetometer bias   *)
(* (3 axes) and a yaw offset.                                              *)
(*                                                                         *)
(* Numbers.  The code computes in single-precision floats.  The model      *)
(* computes in fixed point: a float quantity x is the integer x * FP,      *)
(* rounded to nearest after every multiplication and division, as a float  *)
(* operation rounds its result.  Units:                                    *)
(*   states, measurements, gains, covariances, yaw, yaw rate : 1/FP        *)
(*   delta_ang                                             : 1e-7 rad      *)
(*   delta_ang_dt                                          : 1e-4 s        *)
(*   time_us                                               : microseconds  *)
(* NaN and infinities are outside the model: every input is finite and     *)
(* mag_noise is positive, so the innovation variance of a fault-free axis  *)
(* is at least R_MAG > 0 and its reciprocal is finite.                     *)
(*                                                                         *)
(* One call of fuseMagCal is the sequence of steps Gate, Suppress,         *)
(* Throttle, StaleCheck, ProcessNoise, Predict, Axis (x3), Finish, Return, *)
(* cut short by the early returns of the code; pc is the position inside   *)
(* the call.  The function is single-threaded: no other action is enabled  *)
(* while a call is in progress.  Every input is drawn at the step that     *)
(* first reads it.                                                         *)
(***************************************************************************)
EXTENDS Integers, Sequences, FiniteSets, TLC

---------------------------------------------------------------------------
(* Bounds of the model *)

\* number of calls of fuseMagCal in one behaviour
MaxCalls == 3

---------------------------------------------------------------------------
(* Fixed-point arithmetic *)

\* fixed-point scale: 1.0f is FP
FP == 10 * 100

Abs(x) == IF x < 0 THEN -x ELSE x

\* n / d rounded to nearest, ties away from zero (d > 0)
RoundDiv(n, d) == IF n >= 0 THEN (n + d \div 2) \div d
                  ELSE -(((-n) + d \div 2) \div d)

\* float multiplication a * b
Mul(a, b) == RoundDiv(a * b, FP)

\* fmaxf
fmaxf(a, b) == IF a > b THEN a ELSE b

\* math::constrain(val, min, max)
constrain(val, lo, hi) == IF val < lo THEN lo ELSE IF val > hi THEN hi ELSE val

---------------------------------------------------------------------------
(* Program constants, in fixed point *)

\* M_PI_F
M_PI_F == 3142
\* M_TWOPI_F
M_TWOPI_F == 2 * M_PI_F
\* math::radians(10.0f): gate enable threshold and yaw throttle
Radians10 == 175
\* math::radians(5.0f): gate disable threshold
Radians5 == 87
\* cosf(math::radians(45.0f)): tilt limit
CosTiltLimit == 707
\* math::radians(180.0f): yaw offset limit
Radians180 == 3142
\* math::radians(0.5f) in 1e-6 rad/s: yaw process noise
Radians0p5Micro == 8727
\* delta_ang_dt must exceed 0.0001 s (1 unit of 1e-4 s)
MinDeltaAngDt == 1
\* prior variances of the bias states and of the yaw offset
BiasVarPrior == 250
YawVarPrior == 1000
\* floor of the variances, 1e-12f: the smallest positive fixed-point value
VarFloor == 1
\* innov_limit and bias_limit
InnovLimit == 500
BiasLimit == 500
\* the stale limit: time_delta_sec > 20.  With time_delta_sec =
\* 1E-6f * (float)(microseconds), the product rounded to a float exceeds 20.0f
\* exactly when the rounded microsecond count is at least 20000002.
StaleFloatMicros == 20000002

Axes == 0..2
States == 0..3


\* a 3-vector indexed 0..2, as the code indexes Vector3f
Vec3(x, y, z) == [i \in Axes |-> IF i = 0 THEN x ELSE IF i = 1 THEN y ELSE z]

\* (float) of an unsigned microsecond count below 2^31: the nearest value with
\* a 24-bit mantissa, ties to the even mantissa
FloatOfU64(n) ==
    LET step == IF n < 16777216 THEN 1
                ELSE IF n < 33554432 THEN 2
                ELSE IF n < 67108864 THEN 4
                ELSE IF n < 134217728 THEN 8
                ELSE IF n < 268435456 THEN 16
                ELSE IF n < 536870912 THEN 32
                ELSE IF n < 1073741824 THEN 64 ELSE 128
        q == n \div step
        r == n % step
    IN  IF 2 * r > step \/ (2 * r = step /\ q % 2 = 1)
        THEN (q + 1) * step ELSE q * step

---------------------------------------------------------------------------
(* Inputs: what the owning estimator supplies to a call *)

\* _imu_sample_delayed.delta_ang (1e-7 rad) and .delta_ang_dt (1e-4 s).
\* With gyro bias 40 and dt 40 (4 ms) a level vehicle has the yaw rates
\* 0, 86, 87 (5 deg/s), 175 (10 deg/s), 176 and -176.
ImuSamples ==
    { [delta_ang |-> Vec3(0, 0, 7080), delta_ang_dt |-> 0],
      [delta_ang |-> Vec3(0, 0, 7080), delta_ang_dt |-> 1] }
    \cup { [delta_ang |-> Vec3(0, 0, z), delta_ang_dt |-> 40] :
             z \in {40, 3480, 3520, 7040, 7080, -7000} }

\* _state.gyro_bias (1e-7 rad per sample)
GyroBiasValue == Vec3(0, 0, 40)

\* the vehicle's roll angle in degrees; pitch is 0
Rolls == {0, 30, 45}

\* _R_to_earth(2, 0..2) for a roll angle: (0, sin(roll), cos(roll))
RToEarthRow2(roll) == IF roll = 0 THEN Vec3(0, 0, 1000)
                      ELSE IF roll = 30 THEN Vec3(0, 500, 866)
                      ELSE Vec3(0, 707, 707)

\* the vehicle's yaw angle, euler321(2) of _state.quat_nominal
Yaws == {0, 175, 3100, -3100}

\* _state.quat_nominal of a vehicle with the given roll and yaw (pitch 0):
\* (cos(r/2)cos(y/2), sin(r/2)cos(y/2), sin(r/2)sin(y/2), cos(r/2)sin(y/2)).
\* Tabulated for the rolls 0 and 30: with a roll of 45 tilt_ok is false and
\* the call returns before it reads the quaternion.
QuatNominal(roll, yaw) ==
    IF roll = 0 THEN
        (IF yaw = 0 THEN <<1000, 0, 0, 0>>
         ELSE IF yaw = 175 THEN <<996, 0, 0, 87>>
         ELSE IF yaw = 3100 THEN <<21, 0, 0, 1000>>
         ELSE <<21, 0, 0, -1000>>)
    ELSE
        (IF yaw = 0 THEN <<966, 259, 0, 0>>
         ELSE IF yaw = 175 THEN <<962, 258, 23, 84>>
         ELSE IF yaw = 3100 THEN <<20, 5, 259, 966>>
         ELSE <<20, 5, -259, -966>>)

\* the time between two calls, in microseconds
TimeSteps == {10000000, 10000001, 25000000}

\* _params.mag_noise
MagNoiseValues == {32}

\* getGeoMagNED()
MagEFValues == {Vec3(200, 20, 450)}

\* _mag_sample_delayed.mag: far from the predicted field on X and Y, so these
\* innovations exceed the innovation limit; near it on Z
MagSamples == {Vec3(2000, -2000, 0)}

---------------------------------------------------------------------------
(* State *)

VARIABLES
    \* members of Ekf owned by the calibration filter
    mag_bias_ekf_active,     \* _mag_bias_ekf_active
    mag_bias_ekf_yaw_last,   \* _mag_bias_ekf_yaw_last
    mag_bias_ekf_time_us,    \* _mag_bias_ekf_time_us
    mag_cov_mat,             \* _mag_cov_mat[4][4]
    mag_cal_states,          \* _mag_cal_states: mag_bias(0..2), yaw_offset
    \* members of Ekf written by the rest of the estimator
    time_us,                 \* _imu_sample_delayed.time_us
    mag_noise,               \* _params.mag_noise
    mag_EF_NED,              \* the value getGeoMagNED() returns
    \* the call in progress
    pc,                      \* position inside fuseMagCal
    inp,                     \* the inputs read so far by this call
    loc,                     \* the locals of this call
    \* history
    entry,                   \* the owned members at call entry
    cyc,                     \* what this call has done
    calls,                   \* number of calls so far
    rate_exceeded,           \* some sample so far had |yaw rate| > 10 deg/s
    since_reset              \* the yaw of the last full reset, until an axis is updated

vars == <<mag_bias_ekf_active, mag_bias_ekf_yaw_last, mag_bias_ekf_time_us,
          mag_cov_mat, mag_cal_states, time_us, mag_noise, mag_EF_NED,
          pc, inp, loc, entry, cyc, calls, rate_exceeded, since_reset>>

members == <<mag_bias_ekf_active, mag_bias_ekf_yaw_last, mag_bias_ekf_time_us,
             mag_cov_mat, mag_cal_states>>

ZeroMat == [r \in States |-> [c \in States |-> 0]]

\* variant of PriorCov: the yaw offset variance set like a bias variance
PriorCovUniform == [r \in States |-> [c \in States |->
                       IF r # c THEN 0 ELSE BiasVarPrior]]

\* memset(_mag_cov_mat, 0, ...) and the four diagonal assignments
PriorCov == [r \in States |-> [c \in States |->
                IF r # c THEN 0 ELSE IF r = 3 THEN YawVarPrior ELSE BiasVarPrior]]

ZeroStates == [mag_bias |-> Vec3(0, 0, 0), yaw_offset |-> 0]

\* inputs and locals before the call has read or written them
NoInp == [delta_ang |-> Vec3(0, 0, 0), delta_ang_dt |-> 0, roll |-> 0,
          mag_use_inhibit |-> FALSE, yaw |-> 0, mag |-> Vec3(0, 0, 0)]

NoLoc == [yaw_rate |-> 0, tilt_ok |-> FALSE, yaw_delta |-> 0,
          time_delta_us |-> 0, mag_obs_predicted |-> Vec3(0, 0, 0),
          H_yaw |-> Vec3(0, 0, 0), R_MAG |-> 0, index |-> 0,
          innovation |-> Vec3(0, 0, 0), Kfusion |-> [r \in States |-> 0],
          mag_innov_var |-> 0, delta |-> [r \in States |-> 0]]

NoCyc == [exit |-> "none", gate |-> FALSE, tilt_ok |-> FALSE,
          rate_ge_5 |-> FALSE, noise |-> 0, axes |-> 0, fault_axis |-> -1,
          order |-> << >>]

Snapshot == [active |-> mag_bias_ekf_active, yaw_last |-> mag_bias_ekf_yaw_last,
             time_us |-> mag_bias_ekf_time_us, cov |-> mag_cov_mat,
             states |-> mag_cal_states]

\* no full reset yet, or an axis was updated since the last one
NoReset == [fresh |-> FALSE, yaw |-> 0]

\* a fresh Ekf instance
Init ==
    /\ mag_bias_ekf_active = FALSE
    /\ mag_bias_ekf_yaw_last = 0
    /\ mag_bias_ekf_time_us = 0
    /\ mag_cov_mat = ZeroMat
    /\ mag_cal_states = ZeroStates
    /\ time_us = 0
    /\ mag_noise \in MagNoiseValues
    /\ mag_EF_NED \in MagEFValues
    /\ pc = "idle"
    /\ inp = NoInp
    /\ loc = NoLoc
    /\ entry = Snapshot
    /\ cyc = NoCyc
    /\ calls = 0
    /\ rate_exceeded = FALSE
    /\ since_reset = NoReset

---------------------------------------------------------------------------
(* The activity gate, the suppression check and the yaw throttle *)

\* yaw_rate: the earth-down component of the corrected delta angle over dt
YawRate(R2, delta_ang, gyro_bias, dt) ==
    LET corrected_delta_ang == [i \in Axes |-> delta_ang[i] - gyro_bias[i]]
    IN  RoundDiv(Mul(R2[0], corrected_delta_ang[0])
                 + Mul(R2[1], corrected_delta_ang[1])
                 + Mul(R2[2], corrected_delta_ang[2]), dt)

\* variant of DtValid that accepts a dt of exactly 0.0001 s
DtValidInclusive(dt) == dt >= MinDeltaAngDt

DtValid(dt) == dt > MinDeltaAngDt

TiltOk(R2) == R2[2] > CosTiltLimit

\* variant of GateActive without hysteresis: one threshold, 10 deg/s
GateActiveOneThreshold(active, yaw_rate, tilt_ok) ==
    IF ~active /\ Abs(yaw_rate) > Radians10 /\ tilt_ok THEN TRUE
    ELSE IF active /\ (Abs(yaw_rate) < Radians10 \/ ~tilt_ok) THEN FALSE
    ELSE active

\* variant of GateActive that enables at the threshold, not above it
GateActiveAtThreshold(active, yaw_rate, tilt_ok) ==
    IF ~active /\ Abs(yaw_rate) >= Radians10 /\ tilt_ok THEN TRUE
    ELSE IF active /\ (Abs(yaw_rate) < Radians5 \/ ~tilt_ok) THEN FALSE
    ELSE active

\* variant of GateActive that stays on when the tilt is lost
GateActiveKeepsOnTilt(active, yaw_rate, tilt_ok) ==
    IF ~active /\ Abs(yaw_rate) > Radians10 /\ tilt_ok THEN TRUE
    ELSE IF active /\ Abs(yaw_rate) < Radians5 THEN FALSE
    ELSE active

\* the new value of _mag_bias_ekf_active
GateActive(active, yaw_rate, tilt_ok) ==
    IF ~active /\ Abs(yaw_rate) > Radians10 /\ tilt_ok THEN TRUE
    ELSE IF active /\ (Abs(yaw_rate) < Radians5 \/ ~tilt_ok) THEN FALSE
    ELSE active

\* variant of Suppressed that ignores _mag_use_inhibit
SuppressedByGateOnly(mag_use_inhibit, active) == ~active

\* variant of Suppressed that ignores _mag_bias_ekf_active
SuppressedByInhibitOnly(mag_use_inhibit, active) == ~mag_use_inhibit

\* the early return of the suppression check
Suppressed(mag_use_inhibit, active) == ~mag_use_inhibit \/ ~active

\* variant of WrapYawDelta: the difference is not wrapped
NoWrapYawDelta(d) == d

\* yaw_delta after the single wrap
WrapYawDelta(d) == IF d > M_PI_F THEN d - M_TWOPI_F
                   ELSE IF d < -M_PI_F THEN d + M_TWOPI_F
                   ELSE d

\* variant of Throttled: no throttle
NeverThrottled(yaw_delta) == FALSE

\* the early return of the yaw throttle
Throttled(yaw_delta) == Abs(yaw_delta) < Radians10

\* (float)(_imu_sample_delayed.time_us - _mag_bias_ekf_time_us): sample
\* times never decrease, so the unsigned difference does not wrap
TimeDeltaMicros(now, last) == FloatOfU64(now - last)

\* the reset condition
Stale(last, time_delta_us) == last = 0 \/ time_delta_us >= StaleFloatMicros

\* variant of YawProcessNoiseVariance without the squaring
YawProcessNoiseNotSquared(time_delta_us) ==
    RoundDiv(RoundDiv(time_delta_us, FP) * Radians0p5Micro, FP * FP)

\* yaw_process_noise_variance, from time_delta_sec = 1E-6f * microseconds
YawProcessNoiseVariance(time_delta_us) ==
    LET time_delta_sec == RoundDiv(time_delta_us, FP)
        yaw_process_noise == RoundDiv(time_delta_sec * Radians0p5Micro, FP * FP)
    IN  Mul(yaw_process_noise, yaw_process_noise)

Done(how) == /\ pc' = "done"
             /\ cyc' = [cyc EXCEPT !.exit = how]

\* entry of fuseMagCal up to the end of the gate
Gate ==
    /\ pc = "idle"
    /\ calls < MaxCalls
    /\ \E s \in ImuSamples, roll \in Rolls, step \in TimeSteps :
         LET R2 == RToEarthRow2(roll)
             yaw_rate == YawRate(R2, s.delta_ang, GyroBiasValue, s.delta_ang_dt)
             tilt_ok == TiltOk(R2)
         IN  /\ time_us' = time_us + step
             /\ calls' = calls + 1
             /\ entry' = Snapshot
             /\ inp' = [NoInp EXCEPT !.delta_ang = s.delta_ang,
                                     !.delta_ang_dt = s.delta_ang_dt,
                                     !.roll = roll]
             /\ IF DtValid(s.delta_ang_dt)
                THEN /\ mag_bias_ekf_active' =
                          GateActive(mag_bias_ekf_active, yaw_rate, tilt_ok)
                     /\ loc' = [NoLoc EXCEPT !.yaw_rate = yaw_rate,
                                             !.tilt_ok = tilt_ok]
                     /\ rate_exceeded' = (rate_exceeded \/ Abs(yaw_rate) > Radians10)
                     /\ cyc' = [NoCyc EXCEPT !.gate = TRUE,
                                             !.tilt_ok = tilt_ok,
                                             !.rate_ge_5 = (Abs(yaw_rate) >= Radians5)]
                     /\ pc' = "suppress"
                ELSE /\ loc' = NoLoc
                     /\ cyc' = [NoCyc EXCEPT !.exit = "invalid_dt"]
                     /\ pc' = "done"
                     /\ UNCHANGED <<mag_bias_ekf_active, rate_exceeded>>
    /\ UNCHANGED <<mag_bias_ekf_yaw_last, mag_bias_ekf_time_us, mag_cov_mat,
                   mag_cal_states, mag_noise, mag_EF_NED, since_reset>>

\* don't run if the main filter is using the magnetometer or the gate is off.
\* yaw_rate and tilt_ok went out of scope with the gate's block, and no later
\* line reads the delta angle.
Suppress ==
    /\ pc = "suppress"
    /\ \E inhibit \in BOOLEAN :
         /\ inp' = [NoInp EXCEPT !.roll = inp.roll, !.mag_use_inhibit = inhibit]
         /\ IF Suppressed(inhibit, mag_bias_ekf_active)
            THEN Done("suppressed")
            ELSE pc' = "throttle" /\ UNCHANGED cyc
    /\ loc' = NoLoc
    /\ UNCHANGED <<members, time_us, mag_noise, mag_EF_NED, entry, calls,
                   rate_exceeded, since_reset>>

\* limit to run once per 10 degrees of yaw rotation
Throttle ==
    /\ pc = "throttle"
    /\ \E yaw \in Yaws :
         LET yaw_delta == WrapYawDelta(yaw - mag_bias_ekf_yaw_last)
         IN  /\ inp' = [inp EXCEPT !.yaw = yaw]
             /\ loc' = [loc EXCEPT !.yaw_delta = yaw_delta]
             /\ IF Throttled(yaw_delta)
                THEN Done("throttled") /\ UNCHANGED mag_bias_ekf_yaw_last
                ELSE /\ mag_bias_ekf_yaw_last' = yaw
                     /\ pc' = "stale"
                     /\ UNCHANGED cyc
    /\ UNCHANGED <<mag_bias_ekf_active, mag_bias_ekf_time_us, mag_cov_mat,
                   mag_cal_states, time_us, mag_noise, mag_EF_NED, entry, calls,
                   rate_exceeded, since_reset>>

\* reset the covariance matrix and states the first time or after 20 seconds
StaleCheck ==
    /\ pc = "stale"
    /\ LET time_delta_us == TimeDeltaMicros(time_us, mag_bias_ekf_time_us)
       IN  /\ loc' = [loc EXCEPT !.time_delta_us = time_delta_us]
           /\ IF Stale(mag_bias_ekf_time_us, time_delta_us)
              THEN /\ mag_cov_mat' = PriorCov
                   /\ mag_cal_states' = ZeroStates
                   /\ mag_bias_ekf_time_us' = time_us
                   /\ since_reset' = [fresh |-> TRUE, yaw |-> inp.yaw]
                   /\ Done("reset")
              ELSE /\ pc' = "noise"
                   /\ UNCHANGED <<mag_cov_mat, mag_cal_states,
                                  mag_bias_ekf_time_us, cyc, since_reset>>
    /\ UNCHANGED <<mag_bias_ekf_active, mag_bias_ekf_yaw_last, time_us,
                   mag_noise, mag_EF_NED, inp, entry, calls, rate_exceeded>>

\* apply process noise of 0.5 deg/sec to the yaw state variance
ProcessNoise ==
    /\ pc = "noise"
    /\ mag_cov_mat' = [mag_cov_mat EXCEPT ![3][3] =
                          @ + YawProcessNoiseVariance(loc.time_delta_us)]
    /\ cyc' = [cyc EXCEPT !.noise = @ + 1]
    /\ pc' = "predict"
    /\ UNCHANGED <<mag_bias_ekf_active, mag_bias_ekf_yaw_last,
                   mag_bias_ekf_time_us, mag_cal_states, time_us, mag_noise,
                   mag_EF_NED, inp, loc, entry, calls, rate_exceeded,
                   since_reset>>

---------------------------------------------------------------------------
(* The measurement model and the yaw-offset Jacobian *)

\* sinf on [0, pi] (Bhaskara's rational approximation, exact at 0, pi/2, pi)
SinPos(x) ==
    LET p == RoundDiv(x * (M_PI_F - x), FP)
    IN  RoundDiv(16 * FP * p, RoundDiv(5 * M_PI_F * M_PI_F, FP) - 4 * p)

\* sinf and cosf on [-pi, pi]
sinf(x) == IF x >= 0 THEN SinPos(x) ELSE -SinPos(-x)

cosf(x) == sinf(M_PI_F \div 2 - Abs(x))

\* quat_relative = _state.quat_nominal * (cos(yaw_offset), 0, 0, sin(yaw_offset))
QuatRelative(q, yaw_offset) ==
    LET c == cosf(yaw_offset)
        sn == sinf(yaw_offset)
    IN  << Mul(q[1], c) - Mul(q[4], sn),
           Mul(q[2], c) + Mul(q[3], sn),
           Mul(q[3], c) - Mul(q[2], sn),
           Mul(q[1], sn) + Mul(q[4], c) >>

\* quat_to_invrotmat: the earth to body rotation matrix of a quaternion
QuatToInvRotMat(q) ==
    LET q00 == Mul(q[1], q[1])  q11 == Mul(q[2], q[2])
        q22 == Mul(q[3], q[3])  q33 == Mul(q[4], q[4])
        q01 == Mul(q[1], q[2])  q02 == Mul(q[1], q[3])
        q03 == Mul(q[1], q[4])  q12 == Mul(q[2], q[3])
        q13 == Mul(q[2], q[4])  q23 == Mul(q[3], q[4])
    IN  [r \in Axes |->
           IF r = 0 THEN Vec3(q00 + q11 - q22 - q33, 2 * (q12 + q03), 2 * (q13 - q02))
           ELSE IF r = 1 THEN Vec3(2 * (q12 - q03), q00 - q11 + q22 - q33, 2 * (q23 + q01))
           ELSE Vec3(2 * (q13 + q02), 2 * (q23 - q01), q00 - q11 - q22 + q33)]

\* mag_obs_predicted = Teb * mag_EF + _mag_cal_states.mag_bias
MagObsPredicted(q, mag_EF, states) ==
    LET Teb == QuatToInvRotMat(QuatRelative(q, states.yaw_offset))
    IN  [i \in Axes |-> Mul(Teb[i][0], mag_EF[0]) + Mul(Teb[i][1], mag_EF[1])
                        + Mul(Teb[i][2], mag_EF[2]) + states.mag_bias[i]]

\* R_MAG
MeasNoiseVar(noise) == LET n == fmaxf(noise, 0) IN Mul(n, n)

\* H_MAG[3] of the X, Y and Z axes
YawJacobian(q, mag_EF, yaw_offset) ==
    LET qr == QuatRelative(q, yaw_offset)
        q0 == qr[1]  q1 == qr[2]  q2 == qr[3]
        mn == mag_EF[0]  me == mag_EF[1]  md == mag_EF[2]
        t2 == cosf(yaw_offset)
        t3 == sinf(yaw_offset)
        t4 == Mul(q1, t2)
        t5 == Mul(q0, t3)
        t6 == t4 + t5
        t7 == Mul(q2, t2)
        t8 == Mul(q1, t3)
        t9 == t7 + t8
        t10 == Mul(q0, t2)
        t15 == Mul(q2, t3)
        t11 == t4 - t15
        t12 == 2 * Mul(Mul(q0, t2), t9)
        t13 == t8 - t10
        t14 == 2 * Mul(Mul(q0, t3), t13)
        t16 == 2 * Mul(Mul(q0, t3), t11)
        t17 == Mul(q0, q0)
        t18 == 2 * Mul(t9, t11)
        t19 == 2 * Mul(Mul(q0, t2), t6)
        t20 == 2 * Mul(t6, t11)
        t21 == 4 * Mul(Mul(t2, t3), t17)
        t22 == 2 * Mul(t6, t13)
        t23 == t18 + t22
        t24 == t12 - t14 + t16 + t19
    IN  Vec3(Mul(-md, t12 + t14 + t16 - 2 * Mul(Mul(q0, t2), t6)) - Mul(me, t24)
               + Mul(mn, t18 + 2 * Mul(t6, t10 - Mul(q1, t3))
                         - 4 * Mul(Mul(t2, t3), t17)),
             Mul(me, t23) - Mul(md, t20 + t21 - 2 * Mul(t9, t13))
               + Mul(mn, t12 + t14 + t16 - t19),
             Mul(-md, t23) - Mul(mn, t24)
               + Mul(me, -t20 + t21 + 2 * Mul(t9, t13)))

\* the predicted measurement, R_MAG and the Jacobian terms, computed before
\* the loop over the axes
Predict ==
    /\ pc = "predict"
    /\ \E mag \in MagSamples :
         LET q == QuatNominal(inp.roll, inp.yaw)
         IN  /\ inp' = [inp EXCEPT !.mag = mag]
             /\ loc' = [loc EXCEPT
                   !.mag_obs_predicted = MagObsPredicted(q, mag_EF_NED, mag_cal_states),
                   !.R_MAG = MeasNoiseVar(mag_noise),
                   !.H_yaw = YawJacobian(q, mag_EF_NED, mag_cal_states.yaw_offset),
                   !.index = 0]
    /\ pc' = "axis"
    /\ UNCHANGED <<members, time_us, mag_noise, mag_EF_NED, entry, cyc, calls,
                   rate_exceeded, since_reset>>

---------------------------------------------------------------------------
(* The sequential update of one axis *)

\* the observation Jacobian of axis index
H_MAG(index, H_yaw) ==
    [k \in States |-> IF k = index THEN FP ELSE IF k = 3 THEN H_yaw[index] ELSE 0]

\* PH[row]
PHvec(P, H) ==
    [row \in States |-> Mul(P[row][0], H[0]) + Mul(P[row][1], H[1])
                        + Mul(P[row][2], H[2]) + Mul(P[row][3], H[3])]

\* mag_innov_var
InnovVar(R_MAG, H, PH) ==
    R_MAG + Mul(H[0], PH[0]) + Mul(H[1], PH[1]) + Mul(H[2], PH[2])
          + Mul(H[3], PH[3])

\* the innovation variance is badly conditioned
Fault(mag_innov_var, R_MAG) == ~(mag_innov_var >= R_MAG)

\* variant of FaultReset that also zeroes the states, as the full reset does
FaultResetWithStates(P, st) == [cov |-> PriorCov, states |-> ZeroStates]

\* the fault branch: reinitialise the covariance matrix and abort; the states
\* are not written
FaultReset(P, st) == [cov |-> PriorCov, states |-> st]

\* mag_innov_var_inv = 1.0f / mag_innov_var
Reciprocal(mag_innov_var) == RoundDiv(FP * FP, mag_innov_var)

\* Kfusion[row]
KalmanGain(P, H, mag_innov_var_inv) ==
    [row \in States |-> Mul(PHvec(P, H)[row], mag_innov_var_inv)]

\* KHP[row][col]
KHPmat(K, H, P) ==
    [row \in States |-> [col \in States |->
        Mul(Mul(K[row], H[0]), P[0][col]) + Mul(Mul(K[row], H[1]), P[1][col])
        + Mul(Mul(K[row], H[2]), P[2][col]) + Mul(Mul(K[row], H[3]), P[3][col])]]

\* P - KHP
CovCorrect(P, KHP) ==
    [row \in States |-> [col \in States |-> P[row][col] - KHP[row][col]]]

\* variant of ForceSymmetry that leaves the matrix as the correction left it
NoForceSymmetry(P) == P

\* force symmetry: both entries of a pair become their mean
ForceSymmetry(P) ==
    [row \in States |-> [col \in States |->
        IF row = col THEN P[row][col]
        ELSE RoundDiv(P[row][col] + P[col][row], 2)]]

\* variant of ForcePositive that applies no floor
NoForcePositive(P) == P

\* force positive variances
ForcePositive(P) ==
    [row \in States |-> [col \in States |->
        IF row = col THEN fmaxf(P[row][col], VarFloor) ELSE P[row][col]]]

\* the covariance after the update of one axis
CovUpdate(P, K, H) ==
    ForcePositive(ForceSymmetry(CovCorrect(P, KHPmat(K, H, P))))

\* variant of ClampInnovation that applies the raw innovation
NoClampInnovation(innov) == innov

\* the innovation as applied to the states
ClampInnovation(innov) == constrain(innov, -InnovLimit, InnovLimit)

\* the change of the four states before the state constraint
StateDelta(K, innov) == [r \in States |-> Mul(K[r], innov)]

\* constrain the state estimates
ConstrainStates(st) ==
    [mag_bias |-> [i \in Axes |-> constrain(st.mag_bias[i], -BiasLimit, BiasLimit)],
     yaw_offset |-> constrain(st.yaw_offset, -Radians180, Radians180)]

\* the states after the correction of one axis
StateUpdate(st, delta) ==
    ConstrainStates([mag_bias |-> [i \in Axes |-> st.mag_bias[i] - delta[i]],
                     yaw_offset |-> st.yaw_offset - delta[3]])

\* variant of NextIndex that steps over an axis
NextIndexByTwo(index) == index + 2

\* index++ of the loop over the axes; the loop runs while index <= 2
NextIndex(index) == index + 1

\* variant of MagObsPredictedInLoop that predicts anew from the states as the
\* earlier axes of the same call left them
MagObsPredictedFromCurrentStates ==
    MagObsPredicted(QuatNominal(inp.roll, inp.yaw), mag_EF_NED, mag_cal_states)

\* mag_obs_predicted as the loop reads it: the vector computed before the loop
MagObsPredictedInLoop == loc.mag_obs_predicted

\* one pass of the loop over the axes
Axis ==
    /\ pc = "axis"
    /\ LET index == loc.index
           H == H_MAG(index, loc.H_yaw)
           innov == MagObsPredictedInLoop[index] - inp.mag[index]
           PH == PHvec(mag_cov_mat, H)
           mag_innov_var == InnovVar(loc.R_MAG, H, PH)
       IN  IF Fault(mag_innov_var, loc.R_MAG)
           THEN /\ mag_cov_mat' = FaultReset(mag_cov_mat, mag_cal_states).cov
                /\ mag_cal_states' = FaultReset(mag_cov_mat, mag_cal_states).states
                /\ loc' = [loc EXCEPT !.innovation[index] = innov,
                                      !.mag_innov_var = mag_innov_var]
                /\ pc' = "done"
                /\ cyc' = [cyc EXCEPT !.exit = "fault", !.fault_axis = index]
                /\ UNCHANGED since_reset
           ELSE LET K == KalmanGain(mag_cov_mat, H, Reciprocal(mag_innov_var))
                    clamped == ClampInnovation(innov)
                    delta == StateDelta(K, clamped)
                IN  /\ mag_cov_mat' = CovUpdate(mag_cov_mat, K, H)
                    /\ mag_cal_states' = StateUpdate(mag_cal_states, delta)
                    /\ loc' = [loc EXCEPT !.innovation[index] = clamped,
                                          !.mag_innov_var = mag_innov_var,
                                          !.Kfusion = K,
                                          !.delta = delta,
                                          !.index = NextIndex(index)]
                    /\ cyc' = [cyc EXCEPT !.axes = @ + 1,
                                          !.order = Append(@, index)]
                    /\ since_reset' = NoReset
                    /\ pc' = IF NextIndex(index) <= 2 THEN "axis"
                             ELSE "finish"
    /\ UNCHANGED <<mag_bias_ekf_active, mag_bias_ekf_yaw_last,
                   mag_bias_ekf_time_us, time_us, mag_noise, mag_EF_NED, inp,
                   entry, calls, rate_exceeded>>

\* variant of Finish that returns without recording the time
FinishTimeNotRecorded ==
    /\ pc = "finish"
    /\ Done("fused")
    /\ UNCHANGED <<members, time_us, mag_noise, mag_EF_NED, inp, loc, entry,
                   calls, rate_exceeded, since_reset>>

\* after the loop: record the time of this fusion
Finish ==
    /\ pc = "finish"
    /\ mag_bias_ekf_time_us' = time_us
    /\ Done("fused")
    /\ UNCHANGED <<mag_bias_ekf_active, mag_bias_ekf_yaw_last, mag_cov_mat,
                   mag_cal_states, time_us, mag_noise, mag_EF_NED, inp, loc,
                   entry, calls, rate_exceeded, since_reset>>

\* fuseMagCal returns: its inputs and locals are gone
Return ==
    /\ pc = "done"
    /\ pc' = "idle"
    /\ inp' = NoInp
    /\ loc' = NoLoc
    /\ cyc' = NoCyc
    /\ entry' = Snapshot
    /\ UNCHANGED <<members, time_us, mag_noise, mag_EF_NED, calls, rate_exceeded,
                   since_reset>>

Next == \/ Gate
        \/ Suppress
        \/ Throttle
        \/ StaleCheck
        \/ ProcessNoise
        \/ Predict
        \/ Axis
        \/ Finish
        \/ Return

Spec == Init /\ [][Next]_vars

---------------------------------------------------------------------------
(* Properties.  A call is in progress while pc # "idle"; entry holds the     *)
(* members at its entry and cyc what it has done so far.                    *)

\* P is exactly diag(0.25, 0.25, 0.25, 1.0)
IsDiagPrior(P) ==
    \A r, c \in States :
        P[r][c] = IF r # c THEN 0 ELSE IF r = 3 THEN FP ELSE FP \div 4

\* the call has gone past the yaw throttle
PastThrottle ==
    \/ pc \in {"stale", "noise", "predict", "axis", "finish"}
    \/ pc = "done" /\ cyc.exit \in {"reset", "fault", "fused"}

\* the call has gone past the stale check without a reset
PastStaleCheck ==
    \/ pc \in {"noise", "predict", "axis", "finish"}
    \/ pc = "done" /\ cyc.exit \in {"fault", "fused"}

\* the raw innovation of the axis updated last in this call
LastRawInnovation ==
    loc.mag_obs_predicted[cyc.axes - 1] - inp.mag[cyc.axes - 1]

(* C1.  Skip paths keep the estimate: a call with delta_ang_dt <= 0.0001 s,  *)
(* or with _mag_use_inhibit false, returns with _mag_cal_states and all 16  *)
(* entries of _mag_cov_mat equal to their values at call entry.             *)
C1_SkipPathsKeepEstimate ==
    (/\ pc = "done"
     /\ \/ ~cyc.gate /\ inp.delta_ang_dt <= MinDeltaAngDt
        \/ cyc.gate /\ ~inp.mag_use_inhibit)
    => /\ mag_cal_states = entry.states
       /\ mag_cov_mat = entry.cov

\* a call with _mag_use_inhibit false returns while the gate is active and the
\* estimate is not the initial one
C1_Witness ==
    /\ pc = "done"
    /\ cyc.gate
    /\ ~inp.mag_use_inhibit
    /\ mag_bias_ekf_active
    /\ mag_cal_states # ZeroStates
    /\ ~IsDiagPrior(mag_cov_mat)

(* C2.  Reset correctness: a call that takes the full reset returns with     *)
(* the covariance exactly diag(0.25, 0.25, 0.25, 1.0), the three bias       *)
(* states and the yaw offset 0 and the last-fused time equal to the sample  *)
(* time; and it takes the reset only when the last-fused time was 0 or the  *)
(* sample time is more than 20 s after it.                                  *)
C2_ResetCorrect ==
    (pc = "done" /\ cyc.exit = "reset")
    => /\ IsDiagPrior(mag_cov_mat)
       /\ \A i \in Axes : mag_cal_states.mag_bias[i] = 0
       /\ mag_cal_states.yaw_offset = 0
       /\ mag_bias_ekf_time_us = time_us
       /\ entry.time_us = 0 \/ time_us - entry.time_us > 20 * 1000000

\* a reset after a gap of more than 20 s that discards a fused estimate
C2_Witness ==
    /\ pc = "done"
    /\ cyc.exit = "reset"
    /\ entry.time_us # 0
    /\ entry.states # ZeroStates
    /\ ~IsDiagPrior(entry.cov)

(* C3 as stated.  A call in which some axis finds the innovation variance   *)
(* below R_MAG returns with the covariance diag(0.25, 0.25, 0.25, 1.0) and  *)
(* with _mag_cal_states equal to its value at call entry, whichever axis    *)
(* found the fault.                                                         *)
C3_FaultKeepsEntryState ==
    (pc = "done" /\ cyc.exit = "fault")
    => /\ IsDiagPrior(mag_cov_mat)
       /\ mag_cal_states = entry.states

(* C3, amended.  A call in which some axis finds the innovation variance    *)
(* below R_MAG returns with the covariance diag(0.25, 0.25, 0.25, 1.0); the *)
(* fault branch writes no state, so _mag_cal_states at return is its value  *)
(* just before the faulting axis: the entry value as corrected by the       *)
(* earlier axes of the same call.                                           *)
C3_FaultKeepsStateOfEarlierAxes ==
    /\ []((pc = "done" /\ cyc.exit = "fault")
          => /\ IsDiagPrior(mag_cov_mat)
             /\ loc.mag_innov_var < loc.R_MAG
             /\ cyc.axes = cyc.fault_axis)
    /\ [][(cyc.exit # "fault" /\ cyc'.exit = "fault")
          => mag_cal_states' = mag_cal_states]_vars

\* the Z axis finds a fault after the X and Y axes have corrected the states
C3_Witness ==
    /\ pc = "done"
    /\ cyc.exit = "fault"
    /\ cyc.fault_axis >= 1
    /\ mag_cal_states # entry.states
    /\ ~IsDiagPrior(entry.cov)

(* C4.  Covariance symmetry and positivity: in every state after the first  *)
(* reset (after a full reset, a process-noise step, each axis update and a  *)
(* fault reset) P[i][j] = P[j][i] for all i, j and every P[k][k] is at      *)
(* least the variance floor.                                                *)
C4_CovSymmetricPositive ==
    mag_bias_ekf_time_us # 0
    => /\ \A i, j \in States : mag_cov_mat[i][j] = mag_cov_mat[j][i]
       /\ \A k \in States : mag_cov_mat[k][k] >= VarFloor

\* after an axis update a variance sits on the floor and the matrix has
\* non-zero off-diagonal entries
C4_Witness ==
    /\ pc \in {"axis", "finish"}
    /\ cyc.axes >= 1
    /\ \E k \in States : mag_cov_mat[k][k] = VarFloor
    /\ \E i, j \in States : i # j /\ mag_cov_mat[i][j] # 0

(* C5.  Clamp boundaries: in every state after the first reset each bias   *)
(* component lies in [-0.5, 0.5] and the yaw offset in [-pi, pi], also      *)
(* between the axis updates of one call; and each axis update applies the   *)
(* innovation clamped to [-0.5, 0.5], so the change of each state before    *)
(* the state clamp has magnitude at most 0.5 * |gain of that state|.        *)
C5_ClampBounds ==
    /\ mag_bias_ekf_time_us # 0
       => /\ \A i \in Axes : Abs(mag_cal_states.mag_bias[i]) <= FP \div 2
          /\ Abs(mag_cal_states.yaw_offset) <= M_PI_F
    /\ cyc.axes >= 1
       => /\ Abs(loc.innovation[cyc.axes - 1]) <= FP \div 2
          /\ \A r \in States :
                Abs(loc.delta[r]) <= Mul(Abs(loc.Kfusion[r]), FP \div 2)

\* the first axis update of a call has a raw innovation beyond the limit and
\* moves a bias state from its entry value to beyond the bias limit
C5_Witness ==
    /\ cyc.axes = 1
    /\ Abs(LastRawInnovation) > FP \div 2
    /\ \E i \in Axes :
          /\ Abs(entry.states.mag_bias[i] - loc.delta[i]) > FP \div 2
          /\ Abs(mag_cal_states.mag_bias[i]) = FP \div 2

(* C6.  Gate hysteresis: on a call with a valid dt the flag becomes true    *)
(* iff it was false and |yaw rate| > 10 deg/s and tilt is ok, becomes false *)
(* iff it was true and (|yaw rate| < 5 deg/s or tilt is not ok), and is     *)
(* unchanged otherwise; on a call with an invalid dt it is unchanged.       *)
C6_GateHysteresis ==
    /\ pc = "suppress"
       => LET was == entry.active
              now == mag_bias_ekf_active
              fast == Abs(loc.yaw_rate) > Radians10
              slow == Abs(loc.yaw_rate) < Radians5
          IN  /\ (~was /\ now) <=> (~was /\ fast /\ loc.tilt_ok)
              /\ (was /\ ~now) <=> (was /\ (slow \/ ~loc.tilt_ok))
    /\ (pc = "done" /\ ~cyc.gate) => mag_bias_ekf_active = entry.active

\* the flag stays true at exactly 5 deg/s, below the enable threshold
C6_Witness ==
    /\ pc = "suppress"
    /\ entry.active
    /\ mag_bias_ekf_active
    /\ Abs(loc.yaw_rate) = Radians5
    /\ loc.tilt_ok

(* C7.  Suppression rule: every step that changes the covariance or the     *)
(* states belongs to a call in which _mag_use_inhibit is true and the       *)
(* activity flag, as that call's gate left it, is set; so no sequence of    *)
(* calls with _mag_use_inhibit false changes them.                          *)
C7_ChangesOnlyWhenUninhibitedAndActive ==
    [][(mag_cov_mat' # mag_cov_mat \/ mag_cal_states' # mag_cal_states)
       => /\ cyc.gate
          /\ inp.mag_use_inhibit
          /\ mag_bias_ekf_active]_vars

\* a call has fused three axes and changed the states
C7_Witness ==
    /\ pc = "done"
    /\ cyc.exit = "fused"
    /\ inp.mag_use_inhibit
    /\ mag_bias_ekf_active
    /\ mag_cal_states # entry.states
    /\ mag_cov_mat # entry.cov

(* C8 as stated.  A call goes past the throttle only if the difference      *)
(* between the current yaw and the recorded yaw, wrapped to [-pi, pi], has  *)
(* magnitude at least 10 deg; otherwise it returns with no change; and the  *)
(* recorded yaw is rewritten only by a call that completes a fusion.        *)
C8_ReferenceYawOnlyByFusion ==
    LET d == inp.yaw - entry.yaw_last
        wrapped == IF d > M_PI_F THEN d - 2 * M_PI_F
                   ELSE IF d < -M_PI_F THEN d + 2 * M_PI_F ELSE d
    IN  /\ PastThrottle => Abs(wrapped) >= Radians10
        /\ (pc = "done" /\ cyc.exit = "throttled")
           => /\ Abs(wrapped) < Radians10
              /\ mag_cov_mat = entry.cov
              /\ mag_cal_states = entry.states
              /\ mag_bias_ekf_yaw_last = entry.yaw_last
              /\ mag_bias_ekf_time_us = entry.time_us
        /\ (pc = "done" /\ mag_bias_ekf_yaw_last # entry.yaw_last)
           => cyc.exit = "fused"

(* C8, amended.  A call goes past the throttle only if the difference       *)
(* between the current yaw and the recorded yaw, wrapped to [-pi, pi], has  *)
(* magnitude at least 10 deg; otherwise it returns with the covariance, the *)
(* states, the recorded yaw and the last-fused time unchanged.  The         *)
(* recorded yaw is rewritten by every call that goes past the throttle,     *)
(* also one that then resets or aborts on a fault, and by no other call.    *)
C8_ReferenceYawByEveryPass ==
    LET d == inp.yaw - entry.yaw_last
        wrapped == IF d > M_PI_F THEN d - 2 * M_PI_F
                   ELSE IF d < -M_PI_F THEN d + 2 * M_PI_F ELSE d
    IN  /\ PastThrottle => /\ Abs(wrapped) >= Radians10
                           /\ mag_bias_ekf_yaw_last = inp.yaw
                           /\ mag_bias_ekf_yaw_last # entry.yaw_last
        /\ ~PastThrottle => mag_bias_ekf_yaw_last = entry.yaw_last
        /\ (pc = "done" /\ cyc.exit = "throttled")
           => /\ Abs(wrapped) < Radians10
              /\ mag_cov_mat = entry.cov
              /\ mag_cal_states = entry.states
              /\ mag_bias_ekf_time_us = entry.time_us

\* a call that aborts on a fault has rewritten the recorded yaw
C8_Witness ==
    /\ pc = "done"
    /\ cyc.exit = "fault"
    /\ mag_bias_ekf_yaw_last = inp.yaw
    /\ mag_bias_ekf_yaw_last # entry.yaw_last

(* C9 as stated.  A call that goes past the throttle takes the full reset   *)
(* iff the last-fused time is 0 or the sample time is more than 20 s after  *)
(* it; a reset call applies neither process noise nor an axis update; every *)
(* call that applies process noise or an axis update has an elapsed time of *)
(* at most 20 s.                                                            *)
C9_StaleResetIffOver20s ==
    LET stale == \/ entry.time_us = 0
                 \/ time_us - entry.time_us > 20 * 1000000
    IN  /\ (pc = "done" /\ cyc.exit = "reset")
           => stale /\ cyc.noise = 0 /\ cyc.axes = 0
        /\ PastStaleCheck => ~stale

(* C10.  Stationary scenario: from a fresh instance, as long as no sample   *)
(* has had |yaw rate| above 10 deg/s, the activity flag is false, no reset, *)
(* process noise or axis update has been executed, and the states are zero. *)
C10_StationaryNeverActivates ==
    ~rate_exceeded
    => /\ ~mag_bias_ekf_active
       /\ \A i \in Axes : mag_cal_states.mag_bias[i] = 0
       /\ mag_cal_states.yaw_offset = 0
       /\ mag_cov_mat = ZeroMat
       /\ mag_bias_ekf_time_us = 0
       /\ mag_bias_ekf_yaw_last = 0
       /\ cyc.exit \in {"none", "invalid_dt", "suppressed"}
       /\ cyc.noise = 0
       /\ cyc.axes = 0

\* the last call of a stationary run: valid dt, a yaw rate of at least
\* 5 deg/s, the primary filter not using the magnetometer
C10_Witness ==
    /\ ~rate_exceeded
    /\ calls = MaxCalls
    /\ pc = "done"
    /\ cyc.gate
    /\ cyc.rate_ge_5
    /\ cyc.tilt_ok
    /\ inp.mag_use_inhibit

(* C11 as stated.  Every early-return path (invalid dt, suppression, flag  *)
(* not set, yaw travel below 10 deg) leaves the covariance, the states, the *)
(* activity flag, the recorded yaw and the last-fused time unchanged.       *)
C11_SkipPathsKeepAllMembers ==
    (pc = "done" /\ cyc.exit \in {"invalid_dt", "suppressed", "throttled"})
    => /\ mag_cov_mat = entry.cov
       /\ mag_cal_states = entry.states
       /\ mag_bias_ekf_active = entry.active
       /\ mag_bias_ekf_yaw_last = entry.yaw_last
       /\ mag_bias_ekf_time_us = entry.time_us

(* C11, amended.  The invalid-dt return, taken exactly when delta_ang_dt is *)
(* not above 0.0001 s, leaves all five members unchanged.  The suppression  *)
(* return and the throttle return leave the covariance, the states, the     *)
(* recorded yaw and the last-fused time unchanged; the activity flag is as  *)
(* the gate of the same call wrote it, which may differ from its value at   *)
(* call entry.                                                              *)
C11_SkipPathsKeepAllButFlag ==
    /\ pc = "suppress" => inp.delta_ang_dt > MinDeltaAngDt
    /\ (pc = "done" /\ ~cyc.gate)
       => /\ cyc.exit = "invalid_dt"
          /\ inp.delta_ang_dt <= MinDeltaAngDt
          /\ mag_bias_ekf_active = entry.active
    /\ (pc = "done" /\ cyc.exit \in {"invalid_dt", "suppressed", "throttled"})
       => /\ mag_cov_mat = entry.cov
          /\ mag_cal_states = entry.states
          /\ mag_bias_ekf_yaw_last = entry.yaw_last
          /\ mag_bias_ekf_time_us = entry.time_us

\* a call sets the flag and then returns at the throttle, with an estimate
\* stored
C11_Witness ==
    /\ pc = "done"
    /\ cyc.exit = "throttled"
    /\ mag_bias_ekf_active
    /\ ~entry.active
    /\ mag_bias_ekf_time_us # 0

(* C12.  The last-fused time is written only on completion: apart from the *)
(* full reset, it is set to the sample time only by a call in which all     *)
(* three axis updates complete without fault, after the third; a call       *)
(* aborted by a fault and every skipped call leave it unchanged.            *)
C12_LastFusedTimeOnlyOnCompletion ==
    /\ (pc = "done" /\ cyc.exit = "fused")
       => /\ mag_bias_ekf_time_us = time_us
          /\ cyc.axes = 3
          /\ cyc.fault_axis = -1
    /\ (pc = "done" /\ cyc.exit = "reset") => mag_bias_ekf_time_us = time_us
    /\ ~(pc = "done" /\ cyc.exit \in {"fused", "reset"})
       => mag_bias_ekf_time_us = entry.time_us

\* a call aborted by a fault returns with the last-fused time of an earlier
\* call, not the time of its own sample
C12_Witness ==
    /\ pc = "done"
    /\ cyc.exit = "fault"
    /\ cyc.axes >= 1
    /\ mag_bias_ekf_time_us # 0
    /\ mag_bias_ekf_time_us = entry.time_us
    /\ mag_bias_ekf_time_us # time_us

(* C13.  Process-noise injection: every call that goes past the throttle   *)
(* and does not reset applies exactly one process-noise step, before the    *)
(* first axis update; the step adds (dt_sec * radians(0.5))^2 to P[3][3],   *)
(* dt_sec being the time since the last-fused time, and leaves the other 15 *)
(* entries of the covariance and the states unchanged.  A reset call        *)
(* applies none.                                                            *)
C13_ProcessNoiseOnYawVarianceOnly ==
    LET dt_sec == RoundDiv(time_us - entry.time_us, FP)
        sd == RoundDiv(dt_sec * 8727, FP * FP)
        added == RoundDiv(sd * sd, FP)
    IN  /\ pc = "predict"
           => /\ \A r, c \in States :
                    mag_cov_mat[r][c] =
                        IF r = 3 /\ c = 3 THEN entry.cov[3][3] + added
                        ELSE entry.cov[r][c]
              /\ mag_cal_states = entry.states
        /\ cyc.noise = IF PastStaleCheck /\ pc # "noise" THEN 1 ELSE 0
        /\ cyc.axes >= 1 => cyc.noise = 1

\* the noise step has grown the yaw variance of a fused estimate whose
\* covariance has off-diagonal entries
C13_Witness ==
    /\ pc = "predict"
    /\ mag_cov_mat[3][3] > entry.cov[3][3]
    /\ \E r, c \in States : r # c /\ entry.cov[r][c] # 0
    /\ entry.states # ZeroStates

(* C14.  Fixed axis order and abort: within one call the axis updates are  *)
(* applied in the order X, Y, Z, each at most once; axis k is updated only  *)
(* after all axes before it were updated without fault in the same call;    *)
(* once axis k finds a fault, neither k nor a later axis is updated for     *)
(* that sample; a call without fault updates all three.                     *)
C14_AxisOrderAndAbort ==
    /\ cyc.order \in {<< >>, <<0>>, <<0, 1>>, <<0, 1, 2>>}
    /\ cyc.axes = Len(cyc.order)
    /\ pc = "axis" => loc.index = Len(cyc.order) /\ loc.index <= 2
    /\ pc = "finish" => cyc.order = <<0, 1, 2>>
    /\ (pc = "done" /\ cyc.exit = "fused") => cyc.order = <<0, 1, 2>>
    /\ (pc = "done" /\ cyc.exit = "fault")
       => /\ cyc.fault_axis \in Axes
          /\ Len(cyc.order) = cyc.fault_axis
    /\ (pc = "done" /\ cyc.exit \notin {"fused", "fault"}) => cyc.order = << >>

\* the Z axis finds a fault: X and Y were updated, in this order, and Z is
\* not
C14_Witness ==
    /\ pc = "done"
    /\ cyc.exit = "fault"
    /\ cyc.fault_axis = 2
    /\ cyc.order = <<0, 1>>
    /\ mag_cal_states # entry.states

(* C15.  Gate invariant: after the gate of a call with a valid dt, the     *)
(* flag being true implies that in this call's sample the tilt is ok        *)
(* (_R_to_earth(2,2) > cos 45 deg) and |yaw rate| >= 5 deg/s; hence every   *)
(* call that resets, adds process noise or updates an axis has both in its  *)
(* own sample.                                                              *)
C15_ActiveImpliesTiltAndRate ==
    /\ pc = "suppress"
       => /\ cyc.tilt_ok = (RToEarthRow2(inp.roll)[2] > 707)
          /\ cyc.rate_ge_5 = (Abs(loc.yaw_rate) >= 87)
    /\ (cyc.gate /\ mag_bias_ekf_active)
       => /\ RToEarthRow2(inp.roll)[2] > 707
          /\ cyc.tilt_ok
          /\ cyc.rate_ge_5
    /\ (PastThrottle \/ cyc.noise > 0 \/ cyc.axes > 0)
       => /\ cyc.gate
          /\ mag_bias_ekf_active
          /\ cyc.tilt_ok
          /\ cyc.rate_ge_5

\* a tilted vehicle (roll 30 deg) fuses on a sample for which the flag was
\* only kept, not set
C15_Witness ==
    /\ pc = "done"
    /\ cyc.exit = "fused"
    /\ entry.active
    /\ inp.roll = 30
    /\ cyc.rate_ge_5

(* C16.  A reset call consumes its sample: it applies no process noise and *)
(* no axis update and leaves the yaw of its sample as the recorded yaw; so  *)
(* the first axis update after a full reset happens in a later call whose   *)
(* yaw, wrapped, differs by at least 10 deg from the yaw of the reset call, *)
(* and no axis is updated before the first reset.                           *)
C16_ResetConsumesSample ==
    LET d == inp.yaw - since_reset.yaw
        wrapped == IF d > M_PI_F THEN d - 2 * M_PI_F
                   ELSE IF d < -M_PI_F THEN d + 2 * M_PI_F ELSE d
    IN  /\ (pc = "done" /\ cyc.exit = "reset")
           => /\ cyc.noise = 0
              /\ cyc.axes = 0
              /\ since_reset.fresh
              /\ since_reset.yaw = inp.yaw
              /\ mag_bias_ekf_yaw_last = inp.yaw
        /\ (since_reset.fresh /\ ~PastThrottle)
           => mag_bias_ekf_yaw_last = since_reset.yaw
        /\ (since_reset.fresh /\ PastStaleCheck)
           => /\ Abs(wrapped) >= Radians10
              /\ entry.yaw_last = since_reset.yaw
              /\ cyc.axes = 0
        /\ (cyc.noise > 0 \/ cyc.axes > 0) => entry.time_us # 0

\* the call after a reset is about to apply the first axis update, at a yaw
\* whose difference from the yaw of the reset had to be wrapped
C16_Witness ==
    /\ pc = "axis"
    /\ cyc.axes = 0
    /\ since_reset.fresh
    /\ Abs(inp.yaw - since_reset.yaw) > M_PI_F
    /\ mag_cal_states = ZeroStates

\* the covariance at the entry of the call with the process noise applied
EntryCovWithNoise ==
    [entry.cov EXCEPT ![3][3] = @ + YawProcessNoiseVariance(loc.time_delta_us)]

\* the prediction and the yaw Jacobian terms computed from the states at the
\* entry of the call
EntryPrediction ==
    MagObsPredicted(QuatNominal(inp.roll, inp.yaw), mag_EF_NED, entry.states)

EntryHYaw ==
    YawJacobian(QuatNominal(inp.roll, inp.yaw), mag_EF_NED,
                entry.states.yaw_offset)

(* C17.  The predicted measurement and the yaw Jacobian terms are those of  *)
(* the states at the entry of the call for every axis of the call: each     *)
(* axis takes as innovation the entry prediction less the measurement,      *)
(* whatever corrections the earlier axes applied to the states, while its   *)
(* innovation variance and gain are computed from the covariance as the     *)
(* earlier axes left it.                                                    *)
C17_PredictionOnceCovarianceCurrent ==
    /\ [](  (pc \in {"axis", "finish"}
             \/ (pc = "done" /\ cyc.exit \in {"fault", "fused"}))
          => /\ loc.mag_obs_predicted = EntryPrediction
             /\ loc.H_yaw = EntryHYaw)
    /\ [][ pc = "axis" =>
           LET index == loc.index
               H == H_MAG(index, EntryHYaw)
               innov == EntryPrediction[index] - inp.mag[index]
               mag_innov_var == InnovVar(loc.R_MAG, H, PHvec(mag_cov_mat, H))
               K == KalmanGain(mag_cov_mat, H, Reciprocal(mag_innov_var))
           IN  /\ loc'.mag_innov_var = mag_innov_var
               /\ IF cyc'.axes = cyc.axes + 1
                  THEN /\ loc'.innovation[index] = ClampInnovation(innov)
                       /\ loc'.Kfusion = K
                       /\ mag_cal_states' =
                            StateUpdate(mag_cal_states,
                                        StateDelta(K, ClampInnovation(innov)))
                  ELSE /\ loc'.innovation[index] = innov
                       /\ mag_cal_states' = mag_cal_states ]_vars

\* X and Y have been updated and Z comes next: the states have moved, a
\* prediction from them would give another Z innovation, and the gain of Y
\* differs from the gain that the covariance before X would have given
C17_Witness ==
    /\ pc = "axis"
    /\ loc.index = 2
    /\ cyc.order = <<0, 1>>
    /\ mag_cal_states # entry.states
    /\ MagObsPredictedFromCurrentStates[2] # loc.mag_obs_predicted[2]
    /\ Abs(loc.mag_obs_predicted[2] - inp.mag[2]) < InnovLimit
    /\ LET H == H_MAG(1, loc.H_yaw)
           P == EntryCovWithNoise
       IN  loc.Kfusion #
             KalmanGain(P, H, Reciprocal(InnovVar(loc.R_MAG, H, PHvec(P, H))))

============================================================================
